---------------------------- MODULE Spec2Model ----------------------------
(***************************************************************************)
(* Model of the water-distribution weight optimizer (TT-AWODA):            *)
(*   normalizacion.py  raw data and the two normalisers                    *)
(*   funciones.py      heuristic, Gini coefficient, multi-objective utility*)
(*   backend/IA/pso.py ParticleSwarmOptimizer (complete optimize loop)     *)
(*   IA/pso.py         ParticleSwarmOptimizer (optimize stops after init)  *)
(*   IA/main.py        the entry point that unpacks optimize's result      *)
(*                                                                         *)
(* Floating point numbers are modelled as fixed-point integers: every      *)
(* operation computes the exact rational result and rounds it to the       *)
(* resolution of its scale (PosScale for weights and velocities, rounded   *)
(* to nearest; NormScale for normalised signals and FitScale for ratios,   *)
(* Gini and utility, rounded down).  The                                   *)
(* value NaN is the result of 0/0 and propagates as in IEEE arithmetic:    *)
(* every arithmetic result with a NaN operand is NaN and every ordered     *)
(* comparison with a NaN operand is false.                                 *)
(***************************************************************************)
EXTENDS Integers, Sequences, FiniteSets, TLC

\* ------------------------------------------------------------ resolutions
\* resolution of a weight / velocity component: 1.0 is PosScale units
PosScale == 12
\* resolution of a normalised signal: 1.0 is NormScale units
NormScale == 420
\* resolution of a utility score: one point (of 100) is FitScale units, so a
\* ratio in [0,1] (the Gini coefficient) has 100 * FitScale units
FitScale == 100
\* resolution of the uniform draws r1, r2 in [0,1): k/RScale, k < RScale
RScale == 2
\* w, c1, c2 are given in tenths
CoefScale == 10

\* IEEE not-a-number (0/0 in numpy division), kept outside every value range
NaN == -999999

IsNaN(x) == x = NaN

\* ------------------------------------------------------------ sequences
RECURSIVE SumFrom(_, _)
SumFrom(s, k) == IF k > Len(s) THEN 0 ELSE s[k] + SumFrom(s, k + 1)

\* Python's sum()
SumSeq(s) == SumFrom(s, 1)

RECURSIVE Merge(_, _)
\* the ascending merge of two ascending sequences
Merge(a, b) ==
    IF a = <<>> THEN b
    ELSE IF b = <<>> THEN a
    ELSE IF Head(a) <= Head(b) THEN <<Head(a)>> \o Merge(Tail(a), b)
    ELSE <<Head(b)>> \o Merge(a, Tail(b))

RECURSIVE sorted(_)
\* Python's sorted() on a list of numbers: ascending, by merging sorted runs
sorted(s) ==
    IF Len(s) <= 1 THEN s
    ELSE LET h == Len(s) \div 2
         IN  Merge(sorted(SubSeq(s, 1, h)), sorted(SubSeq(s, h + 1, Len(s))))

Abs(x) == IF x < 0 THEN -x ELSE x

\* a / b rounded to the nearest integer, for b > 0
RoundDiv(a, b) == (2 * a + b) \div (2 * b)

AnyNaN(s) == \E k \in DOMAIN s : IsNaN(s[k])

\* floor(scale * num / den) for 0 <= num, 0 < den, computed without forming
\* scale * num (which would leave the machine integer range)
ScaledRatio(scale, num, den) ==
    LET q == num \div den
        r == num % den
    IN  scale * q + (scale * r) \div den

\* floor(100 * scale * num / den), by long division in two steps
ScaledPercent(scale, num, den) ==
    LET q == num \div den
        r == num % den
    IN  100 * scale * q + ScaledRatio(scale, 100 * r, den)

\* ------------------------------------------------------------ raw data
COLONIAS ==
    << "Capultitlan", "Villa GAM", "Residencial Zacatenco",
       "Tepeyac Insurgentes", "Lindavista I", "Magdalena de las Salinas",
       "Lindavista II" >>

EDIFICACIONES ==
    << "Hospital", "Clinicas Particulares", "Escuelas", "Casas",
       "Dependencias de Gobierno", "Comercios", "Centros Comerciales" >>

SOCIAL ==
    ("Hospital" :> 7) @@ ("Clinicas Particulares" :> 6) @@ ("Escuelas" :> 5) @@
    ("Casas" :> 4) @@ ("Dependencias de Gobierno" :> 3) @@ ("Comercios" :> 2) @@
    ("Centros Comerciales" :> 1)

LEGAL ==
    ("Hospital" :> 3) @@ ("Casas" :> 3) @@ ("Clinicas Particulares" :> 3) @@
    ("Comercios" :> 2) @@ ("Centros Comerciales" :> 2) @@ ("Escuelas" :> 1) @@
    ("Dependencias de Gobierno" :> 1)

CONSUMO ==
    ("Capultitlan" :> 6) @@ ("Villa GAM" :> 5) @@ ("Residencial Zacatenco" :> 2) @@
    ("Tepeyac Insurgentes" :> 1) @@ ("Lindavista I" :> 3) @@
    ("Magdalena de las Salinas" :> 7) @@ ("Lindavista II" :> 4)

REPORTES ==
    ("Capultitlan" :> 1) @@ ("Villa GAM" :> 2) @@ ("Residencial Zacatenco" :> 7) @@
    ("Tepeyac Insurgentes" :> 4) @@ ("Lindavista I" :> 5) @@
    ("Magdalena de las Salinas" :> 3) @@ ("Lindavista II" :> 6)

\* ------------------------------------------------------------ normalizacion.py
MinOf(S) == CHOOSE x \in S : \A y \in S : x <= y
MaxOf(S) == CHOOSE x \in S : \A y \in S : y <= x

Values(m) == { m[k] : k \in DOMAIN m }

\* the default value of the parameter piso, 0.3
PisoDefault == (3 * NormScale) \div 10

\* the min-max scaling alone, the floor piso not applied
normalizar_sin_piso(valores, piso) ==
    LET min_val == MinOf(Values(valores))
        max_val == MaxOf(Values(valores))
    IN  IF max_val = min_val
        THEN [k \in DOMAIN valores |-> NormScale]
        ELSE [k \in DOMAIN valores |->
                    ((valores[k] - min_val) * NormScale) \div (max_val - min_val)]

normalizar_valores(valores, piso) ==
    LET min_val == MinOf(Values(valores))
        max_val == MaxOf(Values(valores))
        norm == [k \in DOMAIN valores |->
                    ((valores[k] - min_val) * NormScale) \div (max_val - min_val)]
    IN  IF max_val = min_val
        THEN [k \in DOMAIN valores |-> NormScale]
        ELSE [k \in DOMAIN valores |->
                    piso + ((NormScale - piso) * norm[k]) \div NormScale]

\* the priorities divided by their minimum
normalizar_por_minimo(prioridades) ==
    LET min_val == MinOf(Values(prioridades))
    IN  [k \in DOMAIN prioridades |-> (prioridades[k] * NormScale) \div min_val]

normalizar_prioridades(prioridades) ==
    LET max_val == MaxOf(Values(prioridades))
    IN  [k \in DOMAIN prioridades |-> (prioridades[k] * NormScale) \div max_val]

SOCIAL_NORM == normalizar_prioridades(SOCIAL)
LEGAL_NORM == normalizar_prioridades(LEGAL)
CONSUMO_NORM == normalizar_valores(CONSUMO, PisoDefault)
REPORTES_NORM == normalizar_valores(REPORTES, PisoDefault)

\* dict.get(key, 0)
Get(m, k) == IF k \in DOMAIN m THEN m[k] ELSE 0

\* ------------------------------------------------------------ funciones.py
\* the heuristic value, in units of 1/(PosScale*NormScale)
calcular_heuristica(alpha, beta, gamma, delta, edificacion, colonia) ==
    LET x == Get(SOCIAL_NORM, edificacion)
        y == Get(LEGAL_NORM, edificacion)
        z == Get(CONSUMO_NORM, colonia)
        w == Get(REPORTES_NORM, colonia)
    IN  IF AnyNaN(<<alpha, beta, gamma, delta>>) THEN NaN
        ELSE alpha * x + beta * y + gamma * z + delta * w

RECURSIVE SumaDesdeCero(_, _)
\* the ranks counted from 0: sum(i * v for i, v in enumerate(valores))
SumaDesdeCero(valores, i0) ==
    IF i0 >= Len(valores) THEN 0
    ELSE i0 * valores[i0 + 1] + SumaDesdeCero(valores, i0 + 1)

RECURSIVE SumaPonderada(_, _)
\* sum((i + 1) * v for i, v in enumerate(valores)) over the indices i >= i0
SumaPonderada(valores, i0) ==
    IF i0 >= Len(valores) THEN 0
    ELSE (i0 + 1) * valores[i0 + 1] + SumaPonderada(valores, i0 + 1)

\* the quotient (2 * suma_ponderada) / (n * suma_total) alone, the term
\* (n + 1) / n not subtracted
GiniSinRestar(valores) ==
    IF Len(valores) = 0 THEN 0
    ELSE IF AnyNaN(valores) THEN NaN
    ELSE
      LET vs == sorted(valores)
          n == Len(vs)
          suma_total == SumSeq(vs)
          suma_ponderada == SumaPonderada(vs, 0)
      IN  IF suma_total = 0 THEN 0
          ELSE ScaledPercent(FitScale, 2 * suma_ponderada, suma_total) \div n

\* the formula applied to the values in the order given, not sorted
GiniSinOrdenar(valores) ==
    IF Len(valores) = 0 THEN 0
    ELSE IF AnyNaN(valores) THEN NaN
    ELSE
      LET n == Len(valores)
          suma_total == SumSeq(valores)
          num == 2 * SumaPonderada(valores, 0) - (n + 1) * suma_total
      IN  IF suma_total = 0 THEN 0
          ELSE ScaledPercent(FitScale, Abs(num), suma_total) \div n

\* the Gini coefficient of non-negative values, in units of 1/(100*FitScale)
calcular_coeficiente_gini(valores) ==
    IF Len(valores) = 0 THEN 0
    ELSE IF AnyNaN(valores) THEN NaN
    ELSE
      LET vs == sorted(valores)
          n == Len(vs)
          suma_total == SumSeq(vs)
          suma_ponderada == SumaPonderada(vs, 0)
          \* (2*sp)/(n*st) - (n+1)/n = (2*sp - (n+1)*st) / (n*st)
          num == 2 * suma_ponderada - (n + 1) * suma_total
      IN  IF suma_total = 0 THEN 0
          ELSE ScaledPercent(FitScale, num, suma_total) \div n

\* the (colonia, edificacion) pairs in the order of the nested loops
Pares ==
    [ k \in 1..(Len(COLONIAS) * Len(EDIFICACIONES)) |->
        << COLONIAS[((k - 1) \div Len(EDIFICACIONES)) + 1],
           EDIFICACIONES[((k - 1) % Len(EDIFICACIONES)) + 1] >> ]

\* a product / a sum of floats
Mul(a, b) == IF IsNaN(a) \/ IsNaN(b) THEN NaN ELSE a * b
SumF(s) == IF AnyNaN(s) THEN NaN ELSE SumSeq(s)

\* the five lists of lines 104-120 once the nested loops have run: entry k
\* is what the k-th pass of the loop body appended
Listas(alpha, beta, gamma, delta) ==
    LET valores_heuristica ==
            SubSeq([k \in DOMAIN Pares |->
                      calcular_heuristica(alpha, beta, gamma, delta,
                                          Pares[k][2], Pares[k][1])],
                   1, Len(Pares))
    IN  [ valores_heuristica |-> valores_heuristica,
          ponderacion_social |->
              [k \in DOMAIN Pares |-> Mul(valores_heuristica[k], SOCIAL_NORM[Pares[k][2]])],
          ponderacion_legal |->
              [k \in DOMAIN Pares |-> Mul(valores_heuristica[k], LEGAL_NORM[Pares[k][2]])],
          ponderacion_consumo |->
              [k \in DOMAIN Pares |-> Mul(valores_heuristica[k], CONSUMO_NORM[Pares[k][1]])],
          ponderacion_reportes |->
              [k \in DOMAIN Pares |-> Mul(valores_heuristica[k], REPORTES_NORM[Pares[k][1]])] ]

\* the ratio defaulting to 1 instead of 0 when there is no heuristic mass
PorcentajeUno(suma, suma_total) ==
    IF IsNaN(suma_total) \/ ~(suma_total > 0) THEN 100 * FitScale
    ELSE ScaledPercent(FitScale, suma, suma_total) \div NormScale

\* 100 * (suma / suma_total if suma_total > 0 else 0), suma carrying one more
\* factor NormScale than suma_total; in units of 1/FitScale
Porcentaje(suma, suma_total) ==
    IF IsNaN(suma_total) \/ ~(suma_total > 0) THEN 0
    ELSE ScaledPercent(FitScale, suma, suma_total) \div NormScale

\* the coefficients w_equidad, w_social, w_legal, w_consumo, w_reportes,
\* in hundredths
w_equidad == 30
w_social == 25
w_legal == 25
w_consumo == 10
w_reportes == 10

\* the total weighted as the docstring of calcular_utilidad says: 0.25 for
\* equidad and 0.30 for satisfaccion_social
UtilidadSegunDocstring(L) ==
    LET gini == calcular_coeficiente_gini(L.valores_heuristica)
        equidad == IF IsNaN(gini) THEN NaN ELSE 100 * FitScale - gini
        suma_total == SumF(L.valores_heuristica)
        satisfaccion_social == Porcentaje(SumF(L.ponderacion_social), suma_total)
        cumplimiento_legal == Porcentaje(SumF(L.ponderacion_legal), suma_total)
        atencion_consumo == Porcentaje(SumF(L.ponderacion_consumo), suma_total)
        atencion_reportes == Porcentaje(SumF(L.ponderacion_reportes), suma_total)
        utilidad_total ==
            IF IsNaN(equidad) THEN NaN
            ELSE (25 * equidad + 30 * satisfaccion_social
                  + 25 * cumplimiento_legal + 10 * atencion_consumo
                  + 10 * atencion_reportes) \div 100
    IN  [ utilidad_total |-> utilidad_total,
          equidad |-> equidad,
          satisfaccion_social |-> satisfaccion_social,
          cumplimiento_legal |-> cumplimiento_legal,
          atencion_consumo |-> atencion_consumo,
          atencion_reportes |-> atencion_reportes,
          coeficiente_gini |-> gini ]

\* lines 122-165, from the five lists
UtilidadDeListas(L) ==
    LET gini == calcular_coeficiente_gini(L.valores_heuristica)
        equidad == IF IsNaN(gini) THEN NaN ELSE 100 * FitScale - gini
        suma_total == SumF(L.valores_heuristica)
        satisfaccion_social == Porcentaje(SumF(L.ponderacion_social), suma_total)
        cumplimiento_legal == Porcentaje(SumF(L.ponderacion_legal), suma_total)
        atencion_consumo == Porcentaje(SumF(L.ponderacion_consumo), suma_total)
        atencion_reportes == Porcentaje(SumF(L.ponderacion_reportes), suma_total)
        utilidad_total ==
            IF IsNaN(equidad) THEN NaN
            ELSE (w_equidad * equidad + w_social * satisfaccion_social
                  + w_legal * cumplimiento_legal + w_consumo * atencion_consumo
                  + w_reportes * atencion_reportes) \div 100
    IN  [ utilidad_total |-> utilidad_total,
          equidad |-> equidad,
          satisfaccion_social |-> satisfaccion_social,
          cumplimiento_legal |-> cumplimiento_legal,
          atencion_consumo |-> atencion_consumo,
          atencion_reportes |-> atencion_reportes,
          coeficiente_gini |-> gini ]

calcular_utilidad(alpha, beta, gamma, delta) ==
    UtilidadDeListas(Listas(alpha, beta, gamma, delta))

\* ------------------------------------------------------------ model bounds
\* largest swarm size and iteration count a configuration may ask for
MaxParticles == 2
MaxIter == 2
\* seeds are None or 0..MaxSeed
MaxSeed == 1
\* number of states of the process-wide random generator
RngMod == 8
\* optimize calls made on one optimizer instance
MaxCalls == 2
\* direct calls of the module-level functions: the keys of an argument map are
\* 1..MaxKeys, its raw values at most MaxRaw; an argument list has at most
\* MaxLen values, each at most MaxVal
MaxKeys == 3
MaxRaw == 3
MaxLen == 3
MaxVal == 3
\* a scalar that multiplies a list is num/den with num, den in 1..MaxFactor
MaxFactor == 3
\* the components of a raw vector handed to the repair are -MaxComp..MaxComp
MaxComp == 3

\* seed=None
NoSeed == -1

\* the optimizer objects a program creates
Inst == {1, 2}

\* the default inertia w=0.7 and the undamped w=1.0; the defaults c1=c2=1.5
WChoices == {7, 10}
CChoices == {15}

Configs ==
    [ n_particles : (-1)..MaxParticles,
      n_iterations : (-1)..MaxIter,
      w : WChoices, c1 : CChoices, c2 : CChoices,
      seed : {NoSeed} \cup 0..MaxSeed ]

\* ------------------------------------------------------------ numpy.random
\* The process-wide generator np.random: every draw is a function of the
\* generator state and advances it.
RngStep(s) == (5 * s + 3) % RngMod

RECURSIVE RngAfter(_, _)
\* the generator state after n draws
RngAfter(s, n) == IF n <= 0 THEN s ELSE RngAfter(RngStep(s), n - 1)

\* np.random.seed(seed)
Seeded(seed) == seed % RngMod

\* points of the open simplex that np.random.dirichlet(np.ones(4)) can return
DirichletTable ==
    << << PosScale \div 4, PosScale \div 4, PosScale \div 4,
          PosScale - 3 * (PosScale \div 4) >>,
       << PosScale - 3, 1, 1, 1 >>,
       << 1, PosScale - 3, 1, 1 >>,
       << 1, 1, (PosScale - 2) \div 2, PosScale - 2 - (PosScale - 2) \div 2 >> >>

\* vectors that np.random.randn(4) * 0.1 can return
RandnTable ==
    << [k \in 1..4 |-> 0 - DirichletTable[1][k]],
       << 1, -1, 0, 0 >>,
       << -2, 1, 2, -1 >>,
       << 0, 0, 0, 0 >> >>

\* one row of np.random.dirichlet(np.ones(4), n), drawn in generator state s
DrawDirichlet(s) == DirichletTable[(s % Len(DirichletTable)) + 1]

\* one row of np.random.randn(n, 4) * 0.1, drawn in generator state s
DrawRandn(s) == RandnTable[((s + 1) % Len(RandnTable)) + 1]

\* np.random.rand(), drawn in generator state s; in units of 1/RScale
DrawRand(s) == s % RScale

\* ------------------------------------------------------------ pso.py helpers
NaNVector == <<NaN, NaN, NaN, NaN>>

\* the reversed comparison, a < b
Lt(a, b) == ~IsNaN(a) /\ ~IsNaN(b) /\ a < b

\* a > b on floats: false when either operand is NaN
Gt(a, b) == ~IsNaN(a) /\ ~IsNaN(b) /\ a > b

\* the first index of an array, whatever it holds
FirstIndex(f) == 1

\* np.argmax: the first index of the maximum (arrays here are 1-based)
argmax(f) == CHOOSE k \in DOMAIN f :
                /\ \A j \in DOMAIN f : f[j] <= f[k]
                /\ \A j \in DOMAIN f : j < k => f[j] < f[k]

\* the synchronous variant of PSO: the global best as it stood when the
\* sweep began
SweepStartTarget(global_best_position, sweep_start_best) == sweep_start_best

\* the global best that the social term of line 122 reads: the variable
\* global_best_position as it stands when the particle is processed
SocialTarget(global_best_position, sweep_start_best) == global_best_position

\* self.w * velocities[i] + cognitive + social
NewVelocity(w, c1, c2, r1, r2, v, pos, pbest, gbest) ==
    [k \in 1..4 |->
        IF AnyNaN(<<v[k], pos[k], pbest[k], gbest[k]>>) THEN NaN
        ELSE LET cognitive == RoundDiv(c1 * r1 * (pbest[k] - pos[k]), CoefScale * RScale)
                 social == RoundDiv(c2 * r2 * (gbest[k] - pos[k]), CoefScale * RScale)
             IN  RoundDiv(w * v[k], CoefScale) + cognitive + social]

\* positions[i] + velocities[i]
AddVector(p, v) ==
    [k \in 1..4 |-> IF IsNaN(p[k]) \/ IsNaN(v[k]) THEN NaN ELSE p[k] + v[k]]

\* the vector with its signs kept
KeepSigns(p) == p

\* np.abs(positions[i])
AbsVector(p) == [k \in 1..4 |-> IF IsNaN(p[k]) THEN NaN ELSE Abs(p[k])]

\* positions[i] / positions[i].sum() for a non-negative vector; 0/0 is NaN
DivideBySum(p) ==
    LET s == SumF(p)
    IN  IF IsNaN(s) \/ s = 0 THEN NaNVector
        ELSE [k \in 1..4 |-> RoundDiv(p[k] * PosScale, s)]

\* the constraint repair of lines 129-130
Repair(p) == DivideBySum(AbsVector(p))

\* calcular_utilidad(*pos)
Utilidad(pos) == calcular_utilidad(pos[1], pos[2], pos[3], pos[4])

RECURSIVE ISqrtIn(_, _, _)
\* the largest r in lo..hi with r * r <= x
ISqrtIn(x, lo, hi) ==
    IF lo >= hi THEN lo
    ELSE LET mid == (lo + hi + 1) \div 2
         IN  IF mid * mid <= x THEN ISqrtIn(x, mid, hi) ELSE ISqrtIn(x, lo, mid - 1)

\* np.mean(fitness)
Mean(f) == IF AnyNaN(f) THEN NaN ELSE SumSeq(f) \div Len(f)

\* np.std(fitness)
Std(f) ==
    IF AnyNaN(f) THEN NaN
    ELSE LET m == Mean(f)
             sq == [k \in DOMAIN f |-> (f[k] - m) * (f[k] - m)]
         IN  ISqrtIn(SumSeq(sq) \div Len(f), 0, 100 * FitScale)

\* the record of lines 148-157
HistoryRecord(iteration, gbf, gbp, fitness) ==
    [ iteration |-> iteration,
      best_fitness |-> gbf,
      mean_fitness |-> Mean(fitness),
      std_fitness |-> Std(fitness),
      alpha |-> gbp[1], beta |-> gbp[2], gamma |-> gbp[3], delta |-> gbp[4] ]

\* a loop that stops one sweep short
LoopDoneEarly(iteration, n_iterations) == iteration >= n_iterations - 1

\* for iteration in range(self.n_iterations): the loop is over
LoopDone(iteration, n_iterations) == iteration >= n_iterations

\* a global best that no particle step replaces
NeverBetter(pbetter, fit, global_best_fitness) == FALSE

\* a global best replaced whenever a personal best improved, the comparison
\* of line 142 left out
AlwaysBetter(pbetter, fit, global_best_fitness) == pbetter

\* lines 137 and 142: the global best is compared inside the branch taken
\* when the personal best improved
GlobalBetter(pbetter, fit, global_best_fitness) ==
    pbetter /\ Gt(fit, global_best_fitness)

\* a global best result that is never refreshed
KeepResult(gbetter, resultado, old) == old

\* lines 142-145: the global best result after a particle was evaluated
NewGlobalResult(gbetter, resultado, old) == IF gbetter THEN resultado ELSE old

\* ------------------------------------------------------------ state
VARIABLES
    rng,      \* state of the process-wide generator np.random
    active,   \* the instance whose optimize call is executing, 0 if none
    pc,       \* per instance: "new", "idle", "loop", "returned", "error"
    self,     \* per instance: the attributes set by __init__, and history
    calls,    \* per instance: optimize calls started
    loc,      \* per instance: the local variables of the optimize activation
    ret,      \* per instance: what the last optimize call returned
    caller,   \* per instance: the caller's unpacking of the returned value
    ghost,    \* per instance: history variables of the current optimize call
    fn        \* the last direct call of a module-level function: name, arguments, outcome

vars == <<rng, active, pc, self, calls, loc, ret, caller, ghost, fn>>

\* the optimizer's variables
psoVars == <<rng, active, pc, self, calls, loc, ret, caller, ghost>>

\* no module-level function has been called directly
NoCall == [ name |-> "none" ]

NoSelf ==
    [ n_particles |-> 0, n_iterations |-> 0, w |-> 0, c1 |-> 0, c2 |-> 0,
      seed |-> NoSeed, history |-> <<>> ]

NoResult == calcular_utilidad(0, 0, 0, 0)

NoLoc ==
    [ positions |-> <<>>, velocities |-> <<>>, fitness |-> <<>>,
      personal_best_positions |-> <<>>, personal_best_fitness |-> <<>>,
      global_best_position |-> <<>>, global_best_fitness |-> 0,
      global_best_result |-> NoResult,
      iteration |-> 0, i |-> 0 ]

\* kind: "none" (no call has returned), "tuple" or "None"
NoRet == [ kind |-> "none", position |-> <<>>, result |-> NoResult ]

\* evals: every (particle, position, fitness) evaluated in this call;
\* used_gbest: the global best read by the last particle step;
\* sweep_gbest: the global best at the start of the current sweep;
\* rng0: the generator state when the call began;
\* sweeps: sweeps completed; steps: particle steps made
NoGhost ==
    [ evals |-> {}, used_gbest |-> <<>>, sweep_gbest |-> <<>>,
      rng0 |-> 0, sweeps |-> 0, steps |-> 0 ]

Init ==
    /\ rng \in 0..(RngMod - 1)
    /\ active = 0
    /\ pc = [o \in Inst |-> "new"]
    /\ self = [o \in Inst |-> NoSelf]
    /\ calls = [o \in Inst |-> 0]
    /\ loc = [o \in Inst |-> NoLoc]
    /\ ret = [o \in Inst |-> NoRet]
    /\ caller = [o \in Inst |-> "none"]
    /\ ghost = [o \in Inst |-> NoGhost]
    /\ fn = NoCall

\* ------------------------------------------------------------ __init__
\* ParticleSwarmOptimizer(n_particles, n_iterations, w, c1, c2, seed)
Construct(o, c) ==
    /\ pc[o] = "new"
    /\ active = 0
    /\ self' = [self EXCEPT ![o] =
                  [ n_particles |-> c.n_particles, n_iterations |-> c.n_iterations,
                    w |-> c.w, c1 |-> c.c1, c2 |-> c.c2, seed |-> c.seed,
                    history |-> <<>> ]]
    /\ rng' = IF c.seed # NoSeed THEN Seeded(c.seed) ELSE rng
    /\ pc' = [pc EXCEPT ![o] = "idle"]
    /\ UNCHANGED <<active, calls, loc, ret, caller, ghost>>
    /\ UNCHANGED fn

\* ------------------------------------------------------------ optimize
\* lines 94-111: the swarm after initialisation, drawn from generator state s
InitSwarm(n, s) ==
    LET positions == SubSeq([k \in 1..n |-> DrawDirichlet(RngAfter(s, k - 1))], 1, n)
        velocities == SubSeq([k \in 1..n |-> DrawRandn(RngAfter(s, n + k - 1))], 1, n)
        fitness == SubSeq([k \in 1..n |-> Utilidad(positions[k]).utilidad_total], 1, n)
        global_best_idx == argmax(fitness)
    IN  [ positions |-> positions, velocities |-> velocities, fitness |-> fitness,
          personal_best_positions |-> positions,
          personal_best_fitness |-> fitness,
          global_best_position |-> positions[global_best_idx],
          global_best_fitness |-> fitness[global_best_idx],
          global_best_result |-> Utilidad(positions[global_best_idx]),
          iteration |-> 0, i |-> 0 ]

GhostAtStart(sw, s) ==
    [ evals |-> { <<k, sw.positions[k], sw.fitness[k]>> : k \in DOMAIN sw.positions },
      used_gbest |-> <<>>,
      sweep_gbest |-> sw.global_best_position,
      rng0 |-> s, sweeps |-> 0, steps |-> 0 ]

\* optimize is called; lines 85-111.  dirichlet raises ValueError for a negative
\* size; argmax raises ValueError for an empty array.
OptimizeStart(o) ==
    /\ pc[o] \in {"idle", "returned", "error"}
    /\ active = 0
    /\ calls[o] < MaxCalls
    /\ calls' = [calls EXCEPT ![o] = @ + 1]
    /\ ret' = [ret EXCEPT ![o] = NoRet]
    /\ caller' = [caller EXCEPT ![o] = "none"]
    /\ LET n == self[o].n_particles
       IN  IF n <= 0
           THEN /\ pc' = [pc EXCEPT ![o] = "error"]
                /\ loc' = [loc EXCEPT ![o] = NoLoc]
                /\ ghost' = [ghost EXCEPT ![o] = NoGhost]
                /\ UNCHANGED <<rng, active>>
           ELSE LET sw == InitSwarm(n, rng)
                IN  /\ pc' = [pc EXCEPT ![o] = "loop"]
                    /\ loc' = [loc EXCEPT ![o] = sw]
                    /\ rng' = RngAfter(rng, 2 * n)
                    /\ active' = o
                    /\ ghost' = [ghost EXCEPT ![o] = GhostAtStart(sw, rng)]
    /\ UNCHANGED self
    /\ UNCHANGED fn

\* a particle step that stores as velocity the move the repaired position
\* made, new position minus old position
StepResultMoved(s, l, r1, r2, sweep_gbest) ==
    LET k == l.i + 1
        gbest == SocialTarget(l.global_best_position, sweep_gbest)
        velocity == NewVelocity(s.w, s.c1, s.c2, r1, r2, l.velocities[k],
                                l.positions[k], l.personal_best_positions[k], gbest)
        position == Repair(AddVector(l.positions[k], velocity))
        moved == [j \in 1..4 |->
                    IF IsNaN(position[j]) \/ IsNaN(l.positions[k][j]) THEN NaN
                    ELSE position[j] - l.positions[k][j]]
        resultado == Utilidad(position)
        fit == resultado.utilidad_total
        pbetter == Gt(fit, l.personal_best_fitness[k])
        gbetter == GlobalBetter(pbetter, fit, l.global_best_fitness)
    IN  [ l EXCEPT
            !.velocities[k] = moved,
            !.positions[k] = position,
            !.fitness[k] = fit,
            !.personal_best_fitness[k] = IF pbetter THEN fit ELSE @,
            !.personal_best_positions[k] = IF pbetter THEN position ELSE @,
            !.global_best_fitness = IF gbetter THEN fit ELSE @,
            !.global_best_position = IF gbetter THEN position ELSE @,
            !.global_best_result = NewGlobalResult(gbetter, resultado, @),
            !.i = l.i + 1 ]

\* lines 117-145: the locals after particle l.i of the sweep was processed
StepResult(s, l, r1, r2, sweep_gbest) ==
    LET k == l.i + 1
        gbest == SocialTarget(l.global_best_position, sweep_gbest)
        velocity == NewVelocity(s.w, s.c1, s.c2, r1, r2, l.velocities[k],
                                l.positions[k], l.personal_best_positions[k], gbest)
        position == Repair(AddVector(l.positions[k], velocity))
        resultado == Utilidad(position)
        fit == resultado.utilidad_total
        pbetter == Gt(fit, l.personal_best_fitness[k])
        gbetter == GlobalBetter(pbetter, fit, l.global_best_fitness)
    IN  [ l EXCEPT
            !.velocities[k] = velocity,
            !.positions[k] = position,
            !.fitness[k] = fit,
            !.personal_best_fitness[k] = IF pbetter THEN fit ELSE @,
            !.personal_best_positions[k] = IF pbetter THEN position ELSE @,
            !.global_best_fitness = IF gbetter THEN fit ELSE @,
            !.global_best_position = IF gbetter THEN position ELSE @,
            !.global_best_result = NewGlobalResult(gbetter, resultado, @),
            !.i = l.i + 1 ]

ParticleStep(o) ==
    /\ pc[o] = "loop"
    /\ ~LoopDone(loc[o].iteration, self[o].n_iterations)
    /\ loc[o].i < self[o].n_particles
    /\ LET r1 == DrawRand(rng)
           r2 == DrawRand(RngStep(rng))
           l2 == StepResult(self[o], loc[o], r1, r2, ghost[o].sweep_gbest)
           k == loc[o].i + 1
       IN  /\ loc' = [loc EXCEPT ![o] = l2]
           /\ ghost' = [ghost EXCEPT ![o] =
                 [ @ EXCEPT
                     !.evals = @ \cup { <<k, l2.positions[k], l2.fitness[k]>> },
                     !.used_gbest =
                         SocialTarget(loc[o].global_best_position, ghost[o].sweep_gbest),
                     !.steps = @ + 1 ]]
    /\ rng' = RngAfter(rng, 2)
    /\ UNCHANGED <<active, pc, self, calls, ret, caller>>
    /\ UNCHANGED fn

\* the end of a sweep that keeps only the newest record in self.history
EndSweepOverwrite(o) ==
    /\ pc[o] = "loop"
    /\ ~LoopDone(loc[o].iteration, self[o].n_iterations)
    /\ loc[o].i = self[o].n_particles
    /\ self' = [self EXCEPT ![o].history =
                  <<HistoryRecord(loc[o].iteration, loc[o].global_best_fitness,
                                  loc[o].global_best_position, loc[o].fitness)>>]
    /\ loc' = [loc EXCEPT ![o].iteration = @ + 1, ![o].i = 0]
    /\ ghost' = [ghost EXCEPT ![o].sweeps = @ + 1,
                              ![o].sweep_gbest = loc[o].global_best_position]
    /\ UNCHANGED <<rng, active, pc, calls, ret, caller>>
    /\ UNCHANGED fn

\* lines 147-157: the end of a sweep
EndSweep(o) ==
    /\ pc[o] = "loop"
    /\ ~LoopDone(loc[o].iteration, self[o].n_iterations)
    /\ loc[o].i = self[o].n_particles
    /\ self' = [self EXCEPT ![o].history =
                  Append(@, HistoryRecord(loc[o].iteration, loc[o].global_best_fitness,
                                          loc[o].global_best_position, loc[o].fitness))]
    /\ loc' = [loc EXCEPT ![o].iteration = @ + 1, ![o].i = 0]
    /\ ghost' = [ghost EXCEPT ![o].sweeps = @ + 1,
                              ![o].sweep_gbest = loc[o].global_best_position]
    /\ UNCHANGED <<rng, active, pc, calls, ret, caller>>
    /\ UNCHANGED fn

\* line 170: return global_best_position, global_best_result, self.history
\* (the third component is the list self.history itself, not a copy)
Return(o) ==
    /\ pc[o] = "loop"
    /\ LoopDone(loc[o].iteration, self[o].n_iterations)
    /\ ret' = [ret EXCEPT ![o] =
                 [ kind |-> "tuple", position |-> loc[o].global_best_position,
                   result |-> loc[o].global_best_result ]]
    /\ pc' = [pc EXCEPT ![o] = "returned"]
    /\ active' = 0
    /\ UNCHANGED <<rng, self, calls, loc, caller, ghost>>
    /\ UNCHANGED fn

\* the history list a returned tuple refers to
ReturnedHistory(o) == self[o].history

\* ------------------------------------------------------------ IA/pso.py, IA/main.py
\* optimize of src/IA/pso.py: lines 81-107 initialise the swarm as above,
\* line 109 returns None
OptimizeIA(o) ==
    /\ pc[o] \in {"idle", "returned", "error"}
    /\ active = 0
    /\ calls[o] < MaxCalls
    /\ calls' = [calls EXCEPT ![o] = @ + 1]
    /\ caller' = [caller EXCEPT ![o] = "none"]
    /\ LET n == self[o].n_particles
       IN  IF n <= 0
           THEN /\ pc' = [pc EXCEPT ![o] = "error"]
                /\ loc' = [loc EXCEPT ![o] = NoLoc]
                /\ ghost' = [ghost EXCEPT ![o] = NoGhost]
                /\ ret' = [ret EXCEPT ![o] = NoRet]
                /\ UNCHANGED rng
           ELSE LET sw == InitSwarm(n, rng)
                IN  /\ pc' = [pc EXCEPT ![o] = "returned"]
                    /\ loc' = [loc EXCEPT ![o] = sw]
                    /\ rng' = RngAfter(rng, 2 * n)
                    /\ ghost' = [ghost EXCEPT ![o] = GhostAtStart(sw, rng)]
                    /\ ret' = [ret EXCEPT ![o] = [NoRet EXCEPT !.kind = "None"]]
    /\ UNCHANGED <<active, self>>
    /\ UNCHANGED fn

\* main.py line 29: pesos_optimos, resultado, historial = pso.optimize(...)
\* unpacking None raises TypeError
Unpack(o) ==
    /\ pc[o] = "returned"
    /\ caller[o] = "none"
    /\ caller' = [caller EXCEPT ![o] =
                    IF ret[o].kind = "tuple" THEN "unpacked" ELSE "TypeError"]
    /\ UNCHANGED <<rng, active, pc, self, calls, loc, ret, ghost>>
    /\ UNCHANGED fn

\* ------------------------------------------------------------ specifications
\* one optimizer of backend/IA/pso.py
Next ==
    \/ \E c \in Configs : Construct(1, c)
    \/ OptimizeStart(1)
    \/ ParticleStep(1)
    \/ EndSweep(1)
    \/ Return(1)

Spec == Init /\ [][Next]_vars

\* the second optimizer is built with the configuration of the first, its
\* seed chosen freely
SameButSeed(c, s) ==
    /\ c.n_particles = s.n_particles /\ c.n_iterations = s.n_iterations
    /\ c.w = s.w /\ c.c1 = s.c1 /\ c.c2 = s.c2

\* two optimizers of backend/IA/pso.py in one process, each run once, with
\* swarm sizes and iteration counts that let optimize return
ConstructTwo(o, c) ==
    /\ c.n_particles >= 1
    /\ c.n_iterations >= 0
    /\ \A p \in Inst \ {o} : pc[p] # "new" => SameButSeed(c, self[p])
    /\ Construct(o, c)

OptimizeOnce(o) == calls[o] = 0 /\ OptimizeStart(o)

NextTwo ==
    \/ \E o \in Inst, c \in Configs : ConstructTwo(o, c)
    \/ \E o \in Inst : OptimizeOnce(o)
    \/ \E o \in Inst : ParticleStep(o)
    \/ \E o \in Inst : EndSweep(o)
    \/ \E o \in Inst : Return(o)

SpecTwo == Init /\ [][NextTwo]_vars

\* one optimizer of IA/pso.py and the caller of IA/main.py
NextIA ==
    \/ \E c \in Configs : Construct(1, c)
    \/ OptimizeIA(1)
    \/ Unpack(1)

SpecIA == Init /\ [][NextIA]_vars

\* ------------------------------------------------------------ direct calls
\* the functions of normalizacion.py and funciones.py called on their own
\* an extreme with a default value, which no argument makes raise
NeverRaises(S) == FALSE

\* max() or min() of an empty sequence: neither has a default, so a set Python
\* cannot take the extreme of raises ValueError
RaisesOnEmpty(S) == S = {}

\* raw maps over some of the keys, the empty map included
MapsTo(R) == UNION { [K -> R] : K \in SUBSET (1..MaxKeys) }

\* argument lists of at most MaxLen values
Lists == UNION { [1..n -> 0..MaxVal] : n \in 0..MaxLen }

\* the weight vectors of the simplex, at the resolution of a weight
Simplex ==
    { p \in [1..4 -> 0..PosScale] : p[1] + p[2] + p[3] + p[4] = PosScale }

ZeroWeights == <<0, 0, 0, 0>>

\* the four corners of the simplex and its centre
Corners ==
    { p \in Simplex : \A k \in 1..4 : p[k] \in {0, PosScale} }
    \cup { DirichletTable[1] }

\* what a call did: it returned res, or it raised the exception res
Returned(name, args, res) ==
    [ name |-> name, args |-> args, kind |-> "return", res |-> res ]
Raised(name, args, exc) ==
    [ name |-> name, args |-> args, kind |-> "raise", res |-> exc ]

\* normalizar_prioridades(prioridades)
CallNormalizarPrioridades(prioridades) ==
    /\ fn.name = "none"
    /\ fn' = IF RaisesOnEmpty(Values(prioridades))
             THEN Raised("normalizar_prioridades", prioridades, "ValueError")
             ELSE Returned("normalizar_prioridades", prioridades,
                           normalizar_prioridades(prioridades))
    /\ UNCHANGED psoVars

\* normalizar_valores(valores), piso left at its default
CallNormalizarValores(valores) ==
    /\ fn.name = "none"
    /\ fn' = IF RaisesOnEmpty(Values(valores))
             THEN Raised("normalizar_valores", valores, "ValueError")
             ELSE Returned("normalizar_valores", valores,
                           normalizar_valores(valores, PisoDefault))
    /\ UNCHANGED psoVars

\* calcular_heuristica(alpha, beta, gamma, delta, edificacion, colonia)
CallHeuristica(pesos, edificacion, colonia) ==
    /\ fn.name = "none"
    /\ fn' = Returned("calcular_heuristica", <<pesos, edificacion, colonia>>,
                      calcular_heuristica(pesos[1], pesos[2], pesos[3], pesos[4],
                                          edificacion, colonia))
    /\ UNCHANGED psoVars

\* calcular_coeficiente_gini(valores)
CallGini(valores) ==
    /\ fn.name = "none"
    /\ fn' = Returned("calcular_coeficiente_gini", valores,
                      calcular_coeficiente_gini(valores))
    /\ UNCHANGED psoVars

\* calcular_utilidad(alpha, beta, gamma, delta)
CallUtilidad(pesos) ==
    /\ fn.name = "none"
    /\ fn' = Returned("calcular_utilidad", pesos,
                      calcular_utilidad(pesos[1], pesos[2], pesos[3], pesos[4]))
    /\ UNCHANGED psoVars

\* the constraint repair of lines 129-130 applied to a raw vector
CallRepair(v) ==
    /\ fn.name = "none"
    /\ fn' = Returned("repair", v, Repair(v))
    /\ UNCHANGED psoVars

\* raw vectors, negative components and sums other than 1 included
RawVectors == [1..4 -> (0 - MaxComp)..MaxComp]

\* the arguments are the module's own tables and the bounded ones
NextFn ==
    \/ \E m \in {SOCIAL, LEGAL} : CallNormalizarPrioridades(m)
    \/ \E m \in MapsTo(1..MaxRaw) : CallNormalizarPrioridades(m)
    \/ \E m \in {CONSUMO, REPORTES} : CallNormalizarValores(m)
    \/ \E m \in MapsTo(0..MaxRaw) : CallNormalizarValores(m)
    \/ \E p \in Corners, k \in DOMAIN Pares :
          CallHeuristica(p, Pares[k][2], Pares[k][1])
    \/ \E v \in Lists : CallGini(v)
    \/ \E p \in Simplex \cup {ZeroWeights} : CallUtilidad(p)
    \/ \E v \in RawVectors : CallRepair(v)

\* one direct call of a module-level function, on any of the arguments
\* (the generator, which no such call reads, is left in its state 0)
InitFn == Init /\ rng = 0

SpecFn == InitFn /\ [][NextFn]_vars

\* ------------------------------------------------------------ claims
\* the optimize activation of o has a swarm
Swarm(o) == pc[o] \in {"loop", "returned"}

Particles(o) == DOMAIN loc[o].positions

\* the positions this call sampled at initialisation
Sampled(o) ==
    [k \in 1..self[o].n_particles |-> DrawDirichlet(RngAfter(ghost[o].rng0, k - 1))]

\* a transition that is the step of particle k (1-based) of o
IsStepOf(o, k) ==
    /\ pc[o] = "loop" /\ pc'[o] = "loop"
    /\ ghost'[o].steps = ghost[o].steps + 1
    /\ k = loc[o].i + 1

\* C1: particles are processed in index order and the global best is updated
\* immediately: the velocity a particle step computes is the PSO formula
\* evaluated with the global best as it stands when that particle is processed,
\* which includes every improvement made by a particle processed earlier in the
\* same sweep; the step advances the particle index by one.
C1_ImmediateGlobalBest ==
    [][ \A o \in Inst : \A k \in 1..MaxParticles + 1 :
          IsStepOf(o, k) =>
            /\ loc'[o].i = loc[o].i + 1
            /\ loc'[o].iteration = loc[o].iteration
            /\ loc'[o].velocities[k] =
                 NewVelocity(self[o].w, self[o].c1, self[o].c2,
                             DrawRand(rng), DrawRand(RngStep(rng)),
                             loc[o].velocities[k], loc[o].positions[k],
                             loc[o].personal_best_positions[k],
                             loc[o].global_best_position) ]_vars

\* C1 witness: a particle j > 0 was processed after an earlier particle of the
\* same sweep improved the global best, and read the improved position.
C1_Witness ==
    \E o \in Inst :
        /\ pc[o] = "loop"
        /\ loc[o].i >= 2
        /\ ghost[o].used_gbest # ghost[o].sweep_gbest
        /\ ghost[o].used_gbest \in { e[2] : e \in ghost[o].evals }

\* C2: at every point of optimize the global-best fitness is the maximum
\* fitness of any position evaluated so far, the global-best position is a
\* position where that fitness was obtained, and the global-best fitness is
\* at least every personal-best fitness.
C2_GlobalBestIsMax ==
    \A o \in Inst : Swarm(o) =>
        /\ \A e \in ghost[o].evals :
              ~IsNaN(e[3]) => e[3] <= loc[o].global_best_fitness
        /\ \E e \in ghost[o].evals :
              /\ e[2] = loc[o].global_best_position
              /\ e[3] = loc[o].global_best_fitness
        /\ \A k \in Particles(o) :
              loc[o].personal_best_fitness[k] <= loc[o].global_best_fitness

\* C2 witness: the global best was improved by a particle step of the
\* current sweep.
C2_Witness ==
    \E o \in Inst :
        /\ pc[o] = "loop"
        /\ ghost[o].steps > 0
        /\ loc[o].global_best_position # ghost[o].sweep_gbest

\* the personal best of every particle is its best visited position
PersonalBestIsMax ==
    \A o \in Inst : Swarm(o) =>
        \A k \in Particles(o) :
            /\ \A e \in ghost[o].evals :
                  (e[1] = k /\ ~IsNaN(e[3])) => e[3] <= loc[o].personal_best_fitness[k]
            /\ \E e \in ghost[o].evals :
                  /\ e[1] = k
                  /\ e[2] = loc[o].personal_best_positions[k]
                  /\ e[3] = loc[o].personal_best_fitness[k]

\* a step changes the personal best only for a strictly greater fitness
PersonalBestStrict ==
    \A o \in Inst : \A k \in 1..MaxParticles + 1 :
        (IsStepOf(o, k) /\
         (\/ loc'[o].personal_best_positions[k] # loc[o].personal_best_positions[k]
          \/ loc'[o].personal_best_fitness[k] # loc[o].personal_best_fitness[k]))
        => /\ Gt(loc'[o].fitness[k], loc[o].personal_best_fitness[k])
           /\ loc'[o].personal_best_fitness[k] = loc'[o].fitness[k]
           /\ loc'[o].personal_best_positions[k] = loc'[o].positions[k]

\* C3: after every step the personal best of each particle is the maximum
\* fitness the particle has had at its own visited positions, held at the
\* position where it was obtained, and it changes only when the new fitness is
\* strictly greater.
C3_PersonalBest == []PersonalBestIsMax /\ [][PersonalBestStrict]_vars

\* C3 witness: one particle has stepped to a position that did not improve
\* on its personal best while another step of the call did improve one.
C3_Witness ==
    \E o \in Inst :
        /\ pc[o] = "loop"
        /\ \E k \in Particles(o) :
              /\ loc[o].positions[k] # loc[o].personal_best_positions[k]
              /\ ~IsNaN(loc[o].fitness[k])
              /\ loc[o].fitness[k] < loc[o].personal_best_fitness[k]
        /\ \E k \in Particles(o) :
              loc[o].personal_best_positions[k] # Sampled(o)[k]

\* a point of the simplex: no component is negative and the components sum
\* to 1, up to the rounding of the division (at most half a unit of
\* resolution per component)
OnSimplex(p) ==
    /\ ~AnyNaN(p)
    /\ \A k \in DOMAIN p : p[k] >= 0
    /\ 2 * Abs(SumSeq(p) - PosScale) <= Len(p)

\* C4: every evaluated position, every personal-best position, the global
\* best position and the returned weight vector lie on the simplex.
C4_SimplexInvariant ==
    \A o \in Inst : Swarm(o) =>
        /\ \A e \in ghost[o].evals : OnSimplex(e[2])
        /\ \A k \in Particles(o) :
              /\ OnSimplex(loc[o].positions[k])
              /\ OnSimplex(loc[o].personal_best_positions[k])
        /\ OnSimplex(loc[o].global_best_position)
        /\ (ret[o].kind = "tuple" => OnSimplex(ret[o].position))

RECURSIVE IterationsInOrder(_, _)
\* the 'iteration' fields of the records h[k..] are k-1, k, ...
IterationsInOrder(h, k) ==
    k > Len(h) \/ (h[k].iteration = k - 1 /\ IterationsInOrder(h, k + 1))

\* C5: the first optimize call on an optimizer performs exactly n_iterations
\* sweeps, appends one record at the end of each sweep, and returns a history
\* of exactly n_iterations records whose 'iteration' fields are 0, 1, ...,
\* n_iterations-1 in that order (n_iterations being a count, 0 or more).
C5_ExactlyNIterations ==
    \A o \in Inst : (calls[o] = 1 /\ self[o].n_iterations >= 0 /\ Swarm(o)) =>
        /\ Len(self[o].history) = ghost[o].sweeps
        /\ IterationsInOrder(self[o].history, 1)
        /\ pc[o] = "loop" =>
              /\ ghost[o].sweeps = loc[o].iteration
              /\ ghost[o].sweeps <= self[o].n_iterations
        /\ pc[o] = "returned" =>
              /\ ghost[o].sweeps = self[o].n_iterations
              /\ Len(ReturnedHistory(o)) = self[o].n_iterations
              /\ ghost[o].steps = self[o].n_iterations * self[o].n_particles

\* C5 witness: a first call returned after MaxIter >= 2 sweeps although no
\* sweep improved the global best.
C5_Witness ==
    \E o \in Inst :
        /\ pc[o] = "returned" /\ calls[o] = 1
        /\ self[o].n_iterations = MaxIter
        /\ Len(ReturnedHistory(o)) = MaxIter
        /\ \E k \in 1..self[o].n_particles :
              ret[o].position = Sampled(o)[k]

\* C6: two optimizers built with identical configuration and the same
\* non-null seed, each run once, return identical best weights, utility
\* result and history, in whatever order they were built and run.
C6_SeedDeterminism ==
    ( /\ pc[1] = "returned" /\ pc[2] = "returned"
      /\ calls[1] = 1 /\ calls[2] = 1
      /\ SameButSeed(self[1], self[2])
      /\ self[1].seed # NoSeed
      /\ self[1].seed = self[2].seed )
    => /\ ret[1] = ret[2]
       /\ ReturnedHistory(1) = ReturnedHistory(2)

InvalidConfig(o) ==
    pc[o] # "new" /\ (self[o].n_particles <= 0 \/ self[o].n_iterations <= 0)

\* C7: a configuration with n_particles <= 0 or n_iterations <= 0 is rejected
\* with an error before any position is sampled or evaluated, and optimize
\* never returns a result for it.
C7_InvalidConfigRejected ==
    \A o \in Inst : InvalidConfig(o) =>
        /\ pc[o] \in {"idle", "error"}
        /\ ghost[o].evals = {}
        /\ ret[o].kind = "none"

\* C8: with n_iterations = 0 and n_particles >= 1 optimize makes no particle
\* step and returns the best-fitness initial sampled position (the first one
\* sampled when n_particles = 1), the utility of that position, and an empty
\* history.
C8_ZeroIterations ==
    \A o \in Inst :
        (pc[o] = "returned" /\ self[o].n_iterations = 0 /\ self[o].n_particles >= 1) =>
            /\ ghost[o].steps = 0
            /\ ret[o].kind = "tuple"
            /\ ReturnedHistory(o) = <<>>
            /\ \E k \in 1..self[o].n_particles :
                  /\ ret[o].position = Sampled(o)[k]
                  /\ \A j \in 1..self[o].n_particles :
                        Utilidad(Sampled(o)[j]).utilidad_total
                            <= Utilidad(Sampled(o)[k]).utilidad_total
            /\ ret[o].result = Utilidad(ret[o].position)
            /\ (self[o].n_particles = 1 => ret[o].position = Sampled(o)[1])

\* C8 witness: a call with n_iterations = 0 on two particles returned the
\* second sampled position, which is strictly better than the first.
C8_Witness ==
    \E o \in Inst :
        /\ pc[o] = "returned" /\ self[o].n_iterations = 0
        /\ self[o].n_particles = 2
        /\ ret[o].position = Sampled(o)[2]
        /\ ret[o].position # Sampled(o)[1]
        /\ ReturnedHistory(o) = <<>>

\* C9: the tracked global best position, fitness and result are mutually
\* consistent after every particle step, so are the three returned values,
\* and the last history record of a call with n_iterations >= 1 carries the
\* returned fitness and weight vector.
C9_ReturnConsistent ==
    \A o \in Inst : Swarm(o) =>
        /\ loc[o].global_best_result = Utilidad(loc[o].global_best_position)
        /\ loc[o].global_best_result.utilidad_total = loc[o].global_best_fitness
        /\ pc[o] = "returned" =>
              /\ ret[o].kind = "tuple"
              /\ ret[o].result = Utilidad(ret[o].position)
              /\ ret[o].result.utilidad_total = loc[o].global_best_fitness
              /\ self[o].n_iterations >= 1 =>
                    LET last == ReturnedHistory(o)[Len(ReturnedHistory(o))]
                    IN  /\ last.best_fitness = ret[o].result.utilidad_total
                        /\ <<last.alpha, last.beta, last.gamma, last.delta>>
                              = ret[o].position

\* C9 witness: a call with n_iterations >= 1 returned a position that a
\* particle step found (not one of the sampled initial positions).
C9_Witness ==
    \E o \in Inst :
        /\ pc[o] = "returned" /\ self[o].n_iterations >= 1
        /\ ret[o].kind = "tuple"
        /\ \A k \in 1..self[o].n_particles : ret[o].position # Sampled(o)[k]

\* C10: optimize of IA/pso.py returns the tuple (best position, its utility
\* result, history) that its docstring states, which main.py unpacks into
\* three values.
C10_ReturnsTuple ==
    \A o \in Inst :
        /\ pc[o] = "returned" => ret[o].kind = "tuple"
        /\ caller[o] # "TypeError"

\* a history record carries an undefined number
UndefinedRecord(h) ==
    AnyNaN(<<h.best_fitness, h.mean_fitness, h.std_fitness,
             h.alpha, h.beta, h.gamma, h.delta>>)

\* C11: a position whose components are all zero after the absolute value
\* stops the optimizer with an error: no optimize activation goes on, records
\* history or returns while a particle holds an undefined (NaN) position or
\* fitness.
C11_ZeroSumFatal ==
    \A o \in Inst :
        /\ Swarm(o) =>
              \A k \in Particles(o) :
                  /\ ~AnyNaN(loc[o].positions[k])
                  /\ ~IsNaN(loc[o].fitness[k])
        /\ \A j \in DOMAIN self[o].history : ~UndefinedRecord(self[o].history[j])
        /\ (ret[o].kind = "tuple" =>
              ~AnyNaN(ret[o].position) /\ ~IsNaN(ret[o].result.utilidad_total))

\* the direct call made was a call of the function name that returned
ReturnedFrom(name) == fn.name = name /\ fn.kind = "return"

\* the keys of a raw map that hold its maximum
MaxKeysOf(m) == { k \in DOMAIN m : \A j \in DOMAIN m : m[j] <= m[k] }

\* C12 as stated: normalizar_prioridades maps the key with the maximum raw
\* value to exactly 1.0 and every other key to a value strictly less than
\* 1.0, also when several keys share the maximum.
C12_OnlyOneKeyAtOne ==
    (fn.name = "normalizar_prioridades" /\ DOMAIN fn.args # {}) =>
        /\ fn.kind = "return"
        /\ \E k \in MaxKeysOf(fn.args) :
              /\ fn.res[k] = NormScale
              /\ \A j \in DOMAIN fn.args \ {k} : fn.res[j] < NormScale

\* C12 amended: normalizar_prioridades returns a map over the same keys in
\* which every key holding the maximum raw value is exactly 1.0 and every
\* key holding a smaller raw value is strictly less than 1.0.
C12_MaxKeysAtOne ==
    (fn.name = "normalizar_prioridades" /\ DOMAIN fn.args # {}) =>
        /\ fn.kind = "return"
        /\ DOMAIN fn.res = DOMAIN fn.args
        /\ \A k \in DOMAIN fn.args :
              IF k \in MaxKeysOf(fn.args)
              THEN fn.res[k] = NormScale
              ELSE fn.res[k] < NormScale /\ fn.res[k] >= 0

\* C12 witness: the table LEGAL was normalised: three building types share
\* its maximum and are all 1.0, the others are below 1.0.
C12_Witness ==
    /\ ReturnedFrom("normalizar_prioridades")
    /\ fn.args = LEGAL
    /\ fn.res["Hospital"] = NormScale /\ fn.res["Casas"] = NormScale
    /\ fn.res["Escuelas"] < NormScale

\* the keys of a raw map that hold its minimum
MinKeysOf(m) == { k \in DOMAIN m : \A j \in DOMAIN m : m[k] <= m[j] }

\* C13: for a non-empty raw map normalizar_valores with the default floor
\* returns a map over the same keys whose values lie in [0.3, 1.0]; when the
\* raw values are not all equal the minimum maps to 0.3 and the maximum to
\* 1.0, and when they are all equal every value is exactly 1.0.
C13_FloorAndCeiling ==
    (fn.name = "normalizar_valores" /\ DOMAIN fn.args # {}) =>
        /\ fn.kind = "return"
        /\ DOMAIN fn.res = DOMAIN fn.args
        /\ \A k \in DOMAIN fn.res :
              PisoDefault <= fn.res[k] /\ fn.res[k] <= NormScale
        /\ IF MinKeysOf(fn.args) = DOMAIN fn.args
           THEN \A k \in DOMAIN fn.res : fn.res[k] = NormScale
           ELSE /\ \A k \in MinKeysOf(fn.args) : fn.res[k] = PisoDefault
                /\ \A k \in MaxKeysOf(fn.args) : fn.res[k] = NormScale

\* C13 witness: a map with a minimum, a maximum and a value in between was
\* normalised to 0.3, 1.0 and a value strictly between them.
C13_Witness ==
    /\ ReturnedFrom("normalizar_valores")
    /\ \E i, j, k \in DOMAIN fn.args :
          /\ fn.args[i] < fn.args[j] /\ fn.args[j] < fn.args[k]
          /\ i \in MinKeysOf(fn.args) /\ k \in MaxKeysOf(fn.args)
          /\ fn.res[i] = PisoDefault /\ fn.res[k] = NormScale
          /\ PisoDefault < fn.res[j] /\ fn.res[j] < NormScale

\* C14: calcular_heuristica binds each weight to the signal it is documented
\* to govern: alpha multiplies the legal-normalised priority of the building
\* type, beta its social-normalised priority, gamma the normalised consumption
\* of the zone and delta its normalised reports.
C14_DocumentedBinding ==
    ReturnedFrom("calcular_heuristica") =>
        LET pesos == fn.args[1]
            edificacion == fn.args[2]
            colonia == fn.args[3]
        IN  fn.res = pesos[1] * LEGAL_NORM[edificacion]
                     + pesos[2] * SOCIAL_NORM[edificacion]
                     + pesos[3] * CONSUMO_NORM[colonia]
                     + pesos[4] * REPORTES_NORM[colonia]

\* a score of the scale 0-100
InScale(x) == 0 <= x /\ x <= 100 * FitScale

\* C15: for a weight vector on the simplex calcular_utilidad returns
\* utilidad_total within [0, 100] and each of its five components within
\* [0, 100].
C15_UtilityInScale ==
    (ReturnedFrom("calcular_utilidad") /\ fn.args \in Simplex) =>
        /\ InScale(fn.res.utilidad_total)
        /\ InScale(fn.res.equidad)
        /\ InScale(fn.res.satisfaccion_social)
        /\ InScale(fn.res.cumplimiento_legal)
        /\ InScale(fn.res.atencion_consumo)
        /\ InScale(fn.res.atencion_reportes)

\* C15 witness: the utility of an interior point of the simplex, every
\* component of which is strictly inside the scale.
C15_Witness ==
    /\ ReturnedFrom("calcular_utilidad")
    /\ fn.args \in Simplex
    /\ \A k \in 1..4 : fn.args[k] > 0
    /\ 0 < fn.res.coeficiente_gini
    /\ 0 < fn.res.equidad /\ fn.res.equidad < 100 * FitScale
    /\ 0 < fn.res.satisfaccion_social /\ fn.res.satisfaccion_social < 100 * FitScale
    /\ 0 < fn.res.utilidad_total /\ fn.res.utilidad_total < 100 * FitScale

\* C16: when the heuristic samples sum to zero (all four weights 0)
\* calcular_utilidad raises no error and returns 0 for every ratio-based
\* component, with coeficiente_gini 0.
C16_ZeroMassHandled ==
    (fn.name = "calcular_utilidad" /\ fn.args = ZeroWeights) =>
        /\ fn.kind = "return"
        /\ SumF(Listas(0, 0, 0, 0).valores_heuristica) = 0
        /\ fn.res.satisfaccion_social = 0
        /\ fn.res.cumplimiento_legal = 0
        /\ fn.res.atencion_consumo = 0
        /\ fn.res.atencion_reportes = 0
        /\ fn.res.coeficiente_gini = 0

\* C16 witness: calcular_utilidad(0, 0, 0, 0) returned; its only non-zero
\* component is equidad, 100, so that utilidad_total is 30.
C16_Witness ==
    /\ ReturnedFrom("calcular_utilidad")
    /\ fn.args = ZeroWeights
    /\ fn.res.equidad = 100 * FitScale
    /\ fn.res.utilidad_total = 30 * FitScale

\* C17: calcular_coeficiente_gini returns 0, raising nothing, for an empty
\* sequence, for a sequence whose sum is 0 and for a single positive value.
C17_GiniDegenerate ==
    ( /\ fn.name = "calcular_coeficiente_gini"
      /\ \/ Len(fn.args) = 0
         \/ SumSeq(fn.args) = 0
         \/ (Len(fn.args) = 1 /\ fn.args[1] > 0) )
    => (fn.kind = "return" /\ fn.res = 0)

\* C17 witness: the Gini coefficient of a single positive value was computed
\* and is 0.
C17_Witness ==
    /\ ReturnedFrom("calcular_coeficiente_gini")
    /\ Len(fn.args) = 1 /\ fn.args[1] > 0
    /\ fn.res = 0

\* the rearrangements of a list
Rearrangements(v) ==
    { [i \in DOMAIN v |-> v[p[i]]] :
        p \in { q \in [DOMAIN v -> DOMAIN v] :
                  \A i, j \in DOMAIN v : q[i] = q[j] => i = j } }

\* [k * x for x in v] for the scalar k = num/den: each product is a number of
\* the same resolution as the values, the exact product rounded to it
Scaled(num, den, v) == [i \in DOMAIN v |-> RoundDiv(num * v[i], den)]

\* the Gini coefficient does not depend on the order of the values
PermutationInvariant ==
    ReturnedFrom("calcular_coeficiente_gini") =>
        \A u \in Rearrangements(fn.args) : calcular_coeficiente_gini(u) = fn.res

\* C18 as stated: calcular_coeficiente_gini is invariant under any
\* permutation of its input and under multiplication of every element by the
\* same positive scalar k.
C18_PermutationAndScale ==
    /\ PermutationInvariant
    /\ ReturnedFrom("calcular_coeficiente_gini") =>
          \A num, den \in 1..MaxFactor :
              calcular_coeficiente_gini(Scaled(num, den, fn.args)) = fn.res

\* C18 amended: calcular_coeficiente_gini is invariant under any permutation
\* of its input, and under multiplication of every element by the same
\* positive integer k when the values are integers (the products and sums
\* are then exact).
C18_PermutationAndIntegerScale ==
    /\ PermutationInvariant
    /\ ReturnedFrom("calcular_coeficiente_gini") =>
          \A k \in 1..MaxFactor :
              calcular_coeficiente_gini(Scaled(k, 1, fn.args)) = fn.res

\* C18 witness: the Gini coefficient of an unsorted list of three different
\* values, which is neither 0 nor changed by doubling the values.
C18_Witness ==
    /\ ReturnedFrom("calcular_coeficiente_gini")
    /\ Len(fn.args) = 3
    /\ fn.args[1] > fn.args[2] /\ fn.args[3] > fn.args[1]
    /\ fn.res > 0
    /\ calcular_coeficiente_gini(Scaled(2, 1, fn.args)) = fn.res

\* C19: an empty raw-priority map passed to normalizar_prioridades fails
\* with an error; the call never returns a map.
C19_EmptyMapFails ==
    (fn.name = "normalizar_prioridades" /\ DOMAIN fn.args = {}) =>
        /\ fn.kind = "raise"
        /\ fn.res = "ValueError"

\* C19 witness: normalizar_prioridades({}) raised ValueError.
C19_Witness ==
    /\ fn.name = "normalizar_prioridades"
    /\ DOMAIN fn.args = {}
    /\ fn.kind = "raise"

\* the heuristic samples of a weight vector over the cross-product of zones
\* and building types
Samples(pesos) ==
    [ k \in DOMAIN Pares |->
        calcular_heuristica(pesos[1], pesos[2], pesos[3], pesos[4],
                            Pares[k][2], Pares[k][1]) ]

Range(s) == { s[k] : k \in DOMAIN s }

HistoryOnlyGrows ==
    \A o \in Inst : pc[o] # "new" =>
        /\ Len(self'[o].history) >= Len(self[o].history)
        /\ SubSeq(self'[o].history, 1, Len(self[o].history)) = self[o].history

\* the second optimize call on an optimizer returns the records of the first
\* call followed by as many new ones, numbered from 0 again
SecondCallDoubles ==
    \A o \in Inst :
        (pc[o] = "returned" /\ calls[o] = 2 /\ self[o].n_iterations >= 0) =>
            LET n == self[o].n_iterations
                h == ReturnedHistory(o)
            IN  /\ Len(h) = 2 * n
                /\ \A j \in 1..n :
                      h[j].iteration = j - 1 /\ h[n + j].iteration = j - 1

\* C21: the history is append-only over the life of an optimizer: no step of
\* an optimize call removes or rewrites an earlier record, and a second call
\* returns the n_iterations records of the first call followed by n_iterations
\* new ones whose 'iteration' fields restart at 0.
C21_HistoryAppendOnly == []SecondCallDoubles /\ [][HistoryOnlyGrows]_vars

\* C21 witness: a second call with n_iterations = MaxIter returned a history
\* of 2 * MaxIter records, the record after the first call's last one being
\* numbered 0.
C21_Witness ==
    \E o \in Inst :
        /\ pc[o] = "returned" /\ calls[o] = 2
        /\ self[o].n_iterations = MaxIter
        /\ Len(ReturnedHistory(o)) = 2 * MaxIter
        /\ ReturnedHistory(o)[MaxIter].iteration = MaxIter - 1
        /\ ReturnedHistory(o)[MaxIter + 1].iteration = 0

\* the weight vector a history record carries
RecordWeights(r) == <<r.alpha, r.beta, r.gamma, r.delta>>

\* the best fitness among the positions a call sampled at initialisation
BestInitialFitness(o) ==
    LET f == [k \in 1..self[o].n_particles |-> Utilidad(Sampled(o)[k]).utilidad_total]
    IN  f[argmax(f)]

\* C22: within one optimize call the recorded global-best fitness never
\* decreases from one record to the next, the first record's best_fitness is
\* at least the best initial fitness, and the recorded alpha/beta/gamma/delta
\* change between two consecutive records only if best_fitness strictly
\* increased.
C22_BestNeverDecreases ==
    \A o \in Inst : Swarm(o) =>
        LET h == self[o].history
        IN  /\ \A j \in 1..(Len(h) - 1) :
                  h[j + 1].iteration = h[j].iteration + 1 =>
                      /\ h[j + 1].best_fitness >= h[j].best_fitness
                      /\ RecordWeights(h[j + 1]) # RecordWeights(h[j]) =>
                            h[j + 1].best_fitness > h[j].best_fitness
            /\ ghost[o].sweeps >= 1 =>
                  h[Len(h) - ghost[o].sweeps + 1].best_fitness >= BestInitialFitness(o)

\* C22 witness: a call recorded two sweeps of which the second improved the
\* global best and moved it, the first having improved on the initial best.
C22_Witness ==
    \E o \in Inst :
        /\ Swarm(o) /\ ghost[o].sweeps = 2
        /\ LET h == self[o].history
               a == h[Len(h) - 1]
               b == h[Len(h)]
           IN  /\ b.iteration = a.iteration + 1
               /\ b.best_fitness > a.best_fitness
               /\ RecordWeights(b) # RecordWeights(a)
               /\ a.best_fitness > BestInitialFitness(o)

\* the step of particle k of o leaves every other particle, the history and
\* every other optimizer as they were
OthersUntouched(o, k) ==
    /\ \A j \in Particles(o) \ {k} :
          /\ loc'[o].positions[j] = loc[o].positions[j]
          /\ loc'[o].velocities[j] = loc[o].velocities[j]
          /\ loc'[o].fitness[j] = loc[o].fitness[j]
          /\ loc'[o].personal_best_positions[j] = loc[o].personal_best_positions[j]
          /\ loc'[o].personal_best_fitness[j] = loc[o].personal_best_fitness[j]
    /\ Particles(o)' = Particles(o)
    /\ self' = self
    /\ \A p \in Inst \ {o} : loc'[p] = loc[p]

\* the step of particle k repairs its position only: the position is the
\* repair of old position + new velocity, and the velocity stored is the
\* one that was added, not the move the repaired position made
OnlyPositionRepaired(o, k) ==
    /\ loc'[o].positions[k] =
          Repair(AddVector(loc[o].positions[k], loc'[o].velocities[k]))
    /\ loc'[o].fitness[k] = Utilidad(loc'[o].positions[k]).utilidad_total
    /\ \/ /\ loc'[o].personal_best_positions[k] = loc[o].personal_best_positions[k]
          /\ loc'[o].personal_best_fitness[k] = loc[o].personal_best_fitness[k]
       \/ /\ loc'[o].personal_best_positions[k] = loc'[o].positions[k]
          /\ loc'[o].personal_best_fitness[k] = loc'[o].fitness[k]
    /\ \/ /\ loc'[o].global_best_position = loc[o].global_best_position
          /\ loc'[o].global_best_fitness = loc[o].global_best_fitness
       \/ /\ loc'[o].global_best_position = loc'[o].positions[k]
          /\ loc'[o].global_best_fitness = loc'[o].fitness[k]

\* C23: processing particle i changes only that particle's velocity,
\* position, fitness and possibly its personal best, plus possibly the shared
\* global best; every other particle and the history are left unchanged, and
\* the constraint repair rewrites the position only, not the velocity.
C23_StepFrame ==
    [][ \A o \in Inst : \A k \in 1..MaxParticles + 1 :
          IsStepOf(o, k) => (OthersUntouched(o, k) /\ OnlyPositionRepaired(o, k)) ]_vars

\* C23 witness: in a swarm of two particles the first has been processed
\* and the second has not; the first holds a velocity that does not sum to
\* zero (so position + velocity left the simplex and was repaired) and a
\* repaired position that sums to 1.
C23_Witness ==
    \E o \in Inst :
        /\ pc[o] = "loop" /\ ghost[o].steps >= 1
        /\ self[o].n_particles = 2
        /\ loc[o].iteration = 0 /\ loc[o].i = 1
        /\ ~AnyNaN(loc[o].velocities[1]) /\ ~AnyNaN(loc[o].positions[1])
        /\ SumSeq(loc[o].velocities[1]) # 0
        /\ SumSeq(loc[o].positions[1]) = PosScale
        /\ loc[o].positions[2] = Sampled(o)[2]

\* the repair was applied to a raw vector whose absolute values do not sum
\* to zero
Repaired == ReturnedFrom("repair") /\ SumSeq(AbsVector(fn.args)) # 0

\* C24 as stated: for a raw vector whose absolute values do not sum to zero,
\* applying the constraint repair twice yields the same vector as applying
\* it once.
C24_RepairIdempotent ==
    Repaired => Repair(fn.res) = fn.res

\* C24 amended: the once-repaired vector is non-negative and sums to 1 up to
\* the rounding of the division, and applying the repair to it again yields
\* the same vector whenever its components sum to exactly 1.
C24_RepairIdempotentAtOne ==
    Repaired =>
        /\ OnSimplex(fn.res)
        /\ SumSeq(fn.res) = PosScale => Repair(fn.res) = fn.res

\* C24 witness: a raw vector with a negative component, not normalised, was
\* repaired to a vector summing to exactly 1 that a second repair leaves
\* unchanged.
C24_Witness ==
    /\ Repaired
    /\ \E k \in 1..4 : fn.args[k] < 0
    /\ SumSeq(AbsVector(fn.args)) # PosScale
    /\ fn.res # AbsVector(fn.args)
    /\ SumSeq(fn.res) = PosScale
    /\ Repair(fn.res) = fn.res

=============================================================================
